---- MODULE Spec2Model ----
(***************************************************************************)
(* Number guessing game: the DOM script (script.js, gameState + handlers)  *)
(* and the React component (Game.tsx, useState hooks + handlers).          *)
(* One page runs one of the two implementations; `host` says which one.    *)
(*                                                                         *)
(* A guess is modelled as "type the text, then submit": the text the       *)
(* handler reads is the action's input, so the content of the input field  *)
(* between two submissions is not state.  The handlers run to completion   *)
(* (single-threaded event loop); the only deferred work is the 1.5 s       *)
(* setTimeout that shows the result screen, kept as a FIFO of timers.      *)
(* A handler is reachable only while the screen that carries its control   *)
(* is shown (Game.tsx renders one screen at a time; showScreen hides all   *)
(* screens but one).                                                       *)
(***************************************************************************)
EXTENDS Integers, Sequences, FiniteSets, TLC

\* ------------------------------------------------------------------------
\* Bounds of the model
\* ------------------------------------------------------------------------
\* Math.random() is modelled as u / RandDenom for u in RandomSamples
RandDenom == 100
\* wins that would push totalScore above MaxScore are not explored
MaxScore == 20
\* at most MaxTimers result-screen timers are pending at once
MaxTimers == 2
\* React only: guesses counted beyond maxAttempts before the result screen
MaxOverrun == 2

\* ------------------------------------------------------------------------
\* Game configuration
\* ------------------------------------------------------------------------
NULL == "null"

\* targetNumber: null
NullTarget == -1

LEVELS ==
    [easy   |-> [name |-> "Easy",   min |-> 1, max |-> 50,  maxAttempts |-> 10,
                 bonusThreshold |-> 5, baseScore |-> 10, bonusScore |-> 5],
     medium |-> [name |-> "Medium", min |-> 1, max |-> 75,  maxAttempts |-> 7,
                 bonusThreshold |-> 4, baseScore |-> 10, bonusScore |-> 5],
     hard   |-> [name |-> "Hard",   min |-> 1, max |-> 100, maxAttempts |-> 5,
                 bonusThreshold |-> 3, baseScore |-> 10, bonusScore |-> 5]]

Level == {"easy", "medium", "hard"}

\* ------------------------------------------------------------------------
\* Random target
\* ------------------------------------------------------------------------
RandomSamples == {0, RandDenom - 1}

getRandomNumberNoOffset(min, max, u) == (u * (max - min + 1)) \div RandDenom

\* Math.floor(Math.random() * (max - min + 1)) + min, Math.random() = u/RandDenom
getRandomNumber(min, max, u) == ((u * (max - min + 1)) \div RandDenom) + min

\* ------------------------------------------------------------------------
\* Text of the input field and parseInt
\* ------------------------------------------------------------------------
DigitChars == <<"0", "1", "2", "3", "4", "5", "6", "7", "8", "9">>

IsDigit(c) == \E i \in 1..10 : DigitChars[i] = c

DigitVal(c) == (CHOOSE i \in 1..10 : DigitChars[i] = c) - 1

RECURSIVE SkipSpace(_)
SkipSpace(s) == IF Len(s) > 0 /\ Head(s) = " " THEN SkipSpace(Tail(s)) ELSE s

RECURSIVE LeadingDigits(_)
LeadingDigits(s) ==
    IF Len(s) > 0 /\ IsDigit(Head(s))
    THEN <<Head(s)>> \o LeadingDigits(Tail(s))
    ELSE <<>>

RECURSIVE DigitsValue(_)
DigitsValue(ds) ==
    IF Len(ds) = 0 THEN 0
    ELSE 10 * DigitsValue(SubSeq(ds, 1, Len(ds) - 1)) + DigitVal(ds[Len(ds)])

NaN == [isNaN |-> TRUE, value |-> 0]

\* parseInt that rounds a fraction of .5 and above up instead of truncating
parseIntRounding(s) ==
    LET t    == SkipSpace(s)
        neg  == Len(t) > 0 /\ Head(t) = "-"
        body == IF Len(t) > 0 /\ Head(t) \in {"-", "+"} THEN Tail(t) ELSE t
        ds   == LeadingDigits(body)
        rest == SubSeq(body, Len(ds) + 1, Len(body))
        up   == IF Len(rest) >= 2 /\ rest[1] = "." /\ IsDigit(rest[2])
                   /\ DigitVal(rest[2]) >= 5
                THEN 1 ELSE 0
    IN  IF Len(ds) = 0 THEN NaN
        ELSE [isNaN |-> FALSE,
              value |-> IF neg THEN 0 - (DigitsValue(ds) + up) ELSE DigitsValue(ds) + up]

\* parseInt(string), radix 10: leading blanks, an optional sign, then the
\* longest run of digits; NaN when there is no digit
parseInt(s) ==
    LET t    == SkipSpace(s)
        neg  == Len(t) > 0 /\ Head(t) = "-"
        body == IF Len(t) > 0 /\ Head(t) \in {"-", "+"} THEN Tail(t) ELSE t
        ds   == LeadingDigits(body)
    IN  IF Len(ds) = 0 THEN NaN
        ELSE [isNaN |-> FALSE,
              value |-> IF neg THEN 0 - DigitsValue(ds) ELSE DigitsValue(ds)]

isNaN(g) == g.isNaN

\* the decimal text of an integer, as a player would type it
RECURSIVE NatText(_)
NatText(n) ==
    IF n < 10 THEN <<DigitChars[n + 1]>>
    ELSE NatText(n \div 10) \o <<DigitChars[(n % 10) + 1]>>

IntText(n) == IF n < 0 THEN <<"-">> \o NatText(0 - n) ELSE NatText(n)

\* texts a player submits, given the range and target of the page's session:
\* nothing, letters, numbers just outside the range, the two ends of the
\* range, and the target itself, some with blanks or a fraction around them
GuessTexts(min, max, target) ==
    { <<>>, <<"a", "b", "c">>, <<"-", "5">>,
      IntText(min - 1), IntText(max + 1),
      IntText(min), IntText(max),
      IntText(min) \o <<".", "9">>,
      <<" ">> \o IntText(max) }
    \cup (IF target = NullTarget THEN {}
          ELSE { IntText(target), IntText(target) \o <<".", "7">> })

\* ------------------------------------------------------------------------
\* Feedback messages, history entries, timers
\* ------------------------------------------------------------------------
Feedback(msg, type, args, word) ==
    [text |-> [msg |-> msg, args |-> args, word |-> word], type |-> type]

HistoryItem(guess, hint) == [guess |-> guess, hint |-> hint]

ResultData(won, scoreEarned, bonusEarned) ==
    [won |-> won, scoreEarned |-> scoreEarned, bonusEarned |-> bonusEarned]

\* ------------------------------------------------------------------------
\* State
\* ------------------------------------------------------------------------
VARIABLES
    host,             \* "dom": the page runs script.js; "react": it runs Game.tsx
    \* --- script.js ---
    gameState,        \* the module-level gameState object
    screen,           \* id of the one screen showScreen left visible
    guessHistoryEl,   \* chips appended to #guessHistory
    feedbackEl,       \* text and class of #feedbackMessage
    timers,           \* pending setTimeout callbacks, oldest first
    \* --- Game.tsx ---
    currentScreen, currentLevel, targetNumber, attemptsUsed, totalScore,
    guessHistory, feedbackMessage, resultData,
    reactTimers       \* pending setTimeout callbacks, oldest first

domVars == <<gameState, screen, guessHistoryEl, feedbackEl, timers>>

reactVars == <<currentScreen, currentLevel, targetNumber, attemptsUsed, totalScore,
               guessHistory, feedbackMessage, resultData, reactTimers>>

vars == <<host, domVars, reactVars>>

\* ------------------------------------------------------------------------
\* Scoring and hints (the same code in both files)
\* ------------------------------------------------------------------------
\* a score rule that grants the bonus only strictly under the threshold
scoreEarnedStrict(attempts, config) ==
    IF attempts < config.bonusThreshold
    THEN [score |-> config.baseScore + config.bonusScore, bonus |-> TRUE]
    ELSE [score |-> config.baseScore, bonus |-> FALSE]

\* let scoreEarned = config.baseScore; if (attempts <= config.bonusThreshold) ...
scoreEarned(attempts, config) ==
    IF attempts <= config.bonusThreshold
    THEN [score |-> config.baseScore + config.bonusScore, bonus |-> TRUE]
    ELSE [score |-> config.baseScore, bonus |-> FALSE]

\* the arrows swapped
hintArrowFlipped(guess, target) == IF guess < target THEN "down" ELSE "up"

\* guess < target ? up arrow : down arrow
hintArrow(guess, target) == IF guess < target THEN "up" ELSE "down"

\* the unused `comparison` of Game.tsx: guess < target ? 'higher' : 'lower'
comparisonTextOfAnswer(guess, target) == IF guess < target THEN "higher" ELSE "lower"

\* guess < target ? 'lower' : 'higher'
comparisonText(guess, target) == IF guess < target THEN "lower" ELSE "higher"

\* a severity that warns from the first miss on
feedbackClassEarly(attemptsLeft) == IF attemptsLeft <= 9 THEN "warning" ELSE "info"

\* attemptsLeft <= 2 ? 'warning' : 'info'
feedbackClass(attemptsLeft) == IF attemptsLeft <= 2 THEN "warning" ELSE "info"

\* a range check that lets max + 1 through
outOfRangeLoose(guess, config) == guess < config.min \/ guess > config.max + 1

\* guess < config.min || guess > config.max
outOfRange(guess, config) == guess < config.min \/ guess > config.max

\* ------------------------------------------------------------------------
\* script.js
\* ------------------------------------------------------------------------
gameStateInit ==
    [currentLevel |-> NULL, targetNumber |-> NullTarget, attemptsUsed |-> 0,
     totalScore |-> 0, guessHistory |-> <<>>, isGameActive |-> FALSE]

DomInit ==
    /\ gameState = gameStateInit
    /\ screen = "levelScreen"
    /\ guessHistoryEl = <<>>
    /\ feedbackEl = Feedback("Make your first guess!", "", <<>>, "")
    /\ timers = <<>>

\* startGame(level); LEVELS[null] is undefined, so config.min throws right
\* after currentLevel was assigned and nothing else is touched
startGame(level, u) ==
    IF level = NULL
    THEN /\ gameState' = [gameState EXCEPT !.currentLevel = level]
         /\ UNCHANGED <<screen, guessHistoryEl, feedbackEl, timers>>
    ELSE LET config == LEVELS[level] IN
         /\ gameState' = [gameState EXCEPT
                             !.currentLevel = level,
                             !.targetNumber = getRandomNumber(config.min, config.max, u),
                             !.attemptsUsed = 0,
                             !.guessHistory = <<>>,
                             !.isGameActive = TRUE]
         /\ feedbackEl' = Feedback("Make your first guess!", "", <<>>, "")
         /\ guessHistoryEl' = <<>>
         /\ screen' = "gameScreen"
         /\ UNCHANGED timers

\* handleCorrectGuess(), entered with attemptsUsed already incremented to n
handleCorrectGuess(n) ==
    LET config == LEVELS[gameState.currentLevel]
        s      == scoreEarned(n, config)
    IN  /\ gameState.totalScore + s.score <= MaxScore
        /\ Len(timers) < MaxTimers
        /\ gameState' = [gameState EXCEPT
                            !.attemptsUsed = n,
                            !.isGameActive = FALSE,
                            !.totalScore = @ + s.score]
        /\ feedbackEl' = Feedback("Correct!", "success", <<n>>,
                                  IF s.bonus THEN "Bonus score earned!" ELSE "")
        /\ guessHistoryEl' = Append(guessHistoryEl,
                                    HistoryItem(gameState.targetNumber, "check"))
        /\ timers' = Append(timers, ResultData(TRUE, s.score, s.bonus))
        /\ UNCHANGED screen

\* handleIncorrectGuess that moves the target onto a missed guess
handleIncorrectGuessRedraw(guess, config, n) ==
    LET attemptsLeft == config.maxAttempts - n IN
    IF attemptsLeft = 0
    THEN /\ Len(timers) < MaxTimers
         /\ gameState' = [gameState EXCEPT !.attemptsUsed = n, !.isGameActive = FALSE]
         /\ feedbackEl' = Feedback("Game Over! The number was", "error",
                                   <<gameState.targetNumber>>, "")
         /\ guessHistoryEl' = Append(guessHistoryEl, HistoryItem(guess, "cross"))
         /\ timers' = Append(timers, ResultData(FALSE, 0, FALSE))
         /\ UNCHANGED screen
    ELSE /\ gameState' = [gameState EXCEPT !.attemptsUsed = n, !.targetNumber = guess]
         /\ feedbackEl' = Feedback("Your guess is ... than the number!",
                                   feedbackClass(attemptsLeft),
                                   <<guess, attemptsLeft>>,
                                   comparisonText(guess, gameState.targetNumber))
         /\ guessHistoryEl' = Append(guessHistoryEl,
                                     HistoryItem(guess, hintArrow(guess, gameState.targetNumber)))
         /\ UNCHANGED <<screen, timers>>

\* handleIncorrectGuess(guess, config), entered with attemptsUsed already n
handleIncorrectGuess(guess, config, n) ==
    LET attemptsLeft == config.maxAttempts - n IN
    IF attemptsLeft = 0
    THEN /\ Len(timers) < MaxTimers
         /\ gameState' = [gameState EXCEPT !.attemptsUsed = n, !.isGameActive = FALSE]
         /\ feedbackEl' = Feedback("Game Over! The number was", "error",
                                   <<gameState.targetNumber>>, "")
         /\ guessHistoryEl' = Append(guessHistoryEl, HistoryItem(guess, "cross"))
         /\ timers' = Append(timers, ResultData(FALSE, 0, FALSE))
         /\ UNCHANGED screen
    ELSE /\ gameState' = [gameState EXCEPT !.attemptsUsed = n]
         /\ feedbackEl' = Feedback("Your guess is ... than the number!",
                                   feedbackClass(attemptsLeft),
                                   <<guess, attemptsLeft>>,
                                   comparisonText(guess, gameState.targetNumber))
         /\ guessHistoryEl' = Append(guessHistoryEl,
                                     HistoryItem(guess, hintArrow(guess, gameState.targetNumber)))
         /\ UNCHANGED <<screen, timers>>

\* makeGuess(), raw being the value of #guessInput
makeGuess(raw) ==
    IF ~gameState.isGameActive
    THEN UNCHANGED domVars
    ELSE LET guess  == parseInt(raw)
             config == LEVELS[gameState.currentLevel]
         IN  IF isNaN(guess)
             THEN /\ feedbackEl' = Feedback("Please enter a valid number!", "error", <<>>, "")
                  /\ UNCHANGED <<gameState, screen, guessHistoryEl, timers>>
             ELSE IF outOfRange(guess.value, config)
             THEN /\ feedbackEl' = Feedback("Number must be between", "error",
                                            <<config.min, config.max>>, "")
                  /\ UNCHANGED <<gameState, screen, guessHistoryEl, timers>>
             ELSE IF guess.value = gameState.targetNumber
             THEN handleCorrectGuess(gameState.attemptsUsed + 1)
             ELSE handleIncorrectGuess(guess.value, config, gameState.attemptsUsed + 1)

\* showResultScreen(won, scoreEarned, bonusEarned): fills the result screen
\* from its arguments and from gameState.targetNumber / attemptsUsed as they
\* are when the timer fires, then showScreen('resultScreen')
showResultScreen(won, score, bonus) == screen' = "resultScreen"

\* playAgain()
playAgain(u) == startGame(gameState.currentLevel, u)

\* resetGame with the answer to confirm() ignored
resetGameUnasked(ok, u) == startGame(gameState.currentLevel, u)

\* resetGame(); ok is the answer to confirm()
resetGame(ok, u) ==
    IF ok THEN startGame(gameState.currentLevel, u) ELSE UNCHANGED domVars

\* changeLevel that also clears the score
changeLevelResetsScore ==
    /\ gameState' = [gameState EXCEPT !.currentLevel = NULL, !.isGameActive = FALSE,
                                      !.totalScore = 0]
    /\ screen' = "levelScreen"
    /\ UNCHANGED <<guessHistoryEl, feedbackEl, timers>>

\* changeLevel()
changeLevel ==
    /\ gameState' = [gameState EXCEPT !.currentLevel = NULL, !.isGameActive = FALSE]
    /\ screen' = "levelScreen"
    /\ UNCHANGED <<guessHistoryEl, feedbackEl, timers>>

\* resetTotalScore that also forgets the attempts of the session
resetTotalScoreAndAttempts(ok) ==
    IF ok
    THEN /\ gameState' = [gameState EXCEPT !.totalScore = 0, !.attemptsUsed = 0]
         /\ UNCHANGED <<screen, guessHistoryEl, feedbackEl, timers>>
    ELSE UNCHANGED domVars

\* resetTotalScore(); ok is the answer to confirm()
resetTotalScore(ok) ==
    IF ok
    THEN /\ gameState' = [gameState EXCEPT !.totalScore = 0]
         /\ UNCHANGED <<screen, guessHistoryEl, feedbackEl, timers>>
    ELSE UNCHANGED domVars

\* --- events of the page -------------------------------------------------
DomGuessTexts ==
    IF gameState.currentLevel = NULL
    THEN GuessTexts(1, 9, gameState.targetNumber)
    ELSE GuessTexts(LEVELS[gameState.currentLevel].min,
                    LEVELS[gameState.currentLevel].max, gameState.targetNumber)

DomSelectLevel ==
    /\ host = "dom" /\ screen = "levelScreen"
    /\ \E level \in Level, u \in RandomSamples : startGame(level, u)
    /\ UNCHANGED <<host, reactVars>>

DomMakeGuess ==
    /\ host = "dom" /\ screen = "gameScreen"
    /\ \E raw \in DomGuessTexts : makeGuess(raw)
    /\ UNCHANGED <<host, reactVars>>

DomResultTimer ==
    /\ host = "dom" /\ Len(timers) > 0
    /\ showResultScreen(Head(timers).won, Head(timers).scoreEarned, Head(timers).bonusEarned)
    /\ timers' = Tail(timers)
    /\ UNCHANGED <<gameState, guessHistoryEl, feedbackEl>>
    /\ UNCHANGED <<host, reactVars>>

DomPlayAgain ==
    /\ host = "dom" /\ screen = "resultScreen"
    /\ \E u \in RandomSamples : playAgain(u)
    /\ UNCHANGED <<host, reactVars>>

DomResetGame ==
    /\ host = "dom" /\ screen = "gameScreen"
    /\ \E ok \in BOOLEAN, u \in RandomSamples : resetGame(ok, u)
    /\ UNCHANGED <<host, reactVars>>

DomChangeLevel ==
    /\ host = "dom" /\ screen \in {"gameScreen", "resultScreen"}
    /\ changeLevel
    /\ UNCHANGED <<host, reactVars>>

DomResetTotalScore ==
    /\ host = "dom"
    /\ \E ok \in BOOLEAN : resetTotalScore(ok)
    /\ UNCHANGED <<host, reactVars>>

DomNext ==
    \/ DomSelectLevel
    \/ DomMakeGuess
    \/ DomResultTimer
    \/ DomPlayAgain
    \/ DomResetGame
    \/ DomChangeLevel
    \/ DomResetTotalScore

\* ------------------------------------------------------------------------
\* Game.tsx
\* ------------------------------------------------------------------------
ReactInit ==
    /\ currentScreen = "level"
    /\ currentLevel = NULL
    /\ targetNumber = NullTarget
    /\ attemptsUsed = 0
    /\ totalScore = 0
    /\ guessHistory = <<>>
    /\ feedbackMessage = Feedback("Make your first guess!", "info", <<>>, "")
    /\ resultData = ResultData(FALSE, 0, FALSE)
    /\ reactTimers = <<>>

\* a startGame that forgets setGuessHistory([])
Game_startGameKeepsHistory(level, u) ==
    LET config == LEVELS[level] IN
    /\ currentLevel' = level
    /\ targetNumber' = getRandomNumber(config.min, config.max, u)
    /\ attemptsUsed' = 0
    /\ feedbackMessage' = Feedback("Make your first guess!", "info", <<>>, "")
    /\ currentScreen' = "game"
    /\ UNCHANGED <<guessHistory, totalScore, resultData, reactTimers>>

\* Game.startGame(level)
Game_startGame(level, u) ==
    LET config == LEVELS[level] IN
    /\ currentLevel' = level
    /\ targetNumber' = getRandomNumber(config.min, config.max, u)
    /\ attemptsUsed' = 0
    /\ guessHistory' = <<>>
    /\ feedbackMessage' = Feedback("Make your first guess!", "info", <<>>, "")
    /\ currentScreen' = "game"
    /\ UNCHANGED <<totalScore, resultData, reactTimers>>

\* a handleCorrectGuess that leaves the winning guess out of the history
Game_handleCorrectGuessNoEntry(attempts, config) ==
    LET s == scoreEarned(attempts, config) IN
    /\ totalScore + s.score <= MaxScore
    /\ Len(reactTimers) < MaxTimers
    /\ totalScore' = totalScore + s.score
    /\ feedbackMessage' = Feedback("Correct!", "success", <<attempts>>,
                                   IF s.bonus THEN "Bonus score earned!" ELSE "")
    /\ guessHistory' = guessHistory
    /\ reactTimers' = Append(reactTimers, ResultData(TRUE, s.score, s.bonus))

\* Game.handleCorrectGuess(attempts, config)
Game_handleCorrectGuess(attempts, config) ==
    LET s == scoreEarned(attempts, config) IN
    /\ totalScore + s.score <= MaxScore
    /\ Len(reactTimers) < MaxTimers
    /\ totalScore' = totalScore + s.score
    /\ feedbackMessage' = Feedback("Correct!", "success", <<attempts>>,
                                   IF s.bonus THEN "Bonus score earned!" ELSE "")
    /\ guessHistory' = Append(guessHistory, HistoryItem(targetNumber, "check"))
    /\ reactTimers' = Append(reactTimers, ResultData(TRUE, s.score, s.bonus))

\* Game.handleIncorrectGuess(guess, attempts, config)
Game_handleIncorrectGuess(guess, attempts, config) ==
    LET attemptsLeft == config.maxAttempts - attempts IN
    IF attemptsLeft = 0
    THEN /\ Len(reactTimers) < MaxTimers
         /\ feedbackMessage' = Feedback("Game Over! The number was", "error",
                                        <<targetNumber>>, "")
         /\ guessHistory' = Append(guessHistory, HistoryItem(guess, "cross"))
         /\ reactTimers' = Append(reactTimers, ResultData(FALSE, 0, FALSE))
         /\ UNCHANGED totalScore
    ELSE /\ feedbackMessage' = Feedback("Your guess is ... than the number!",
                                        feedbackClass(attemptsLeft),
                                        <<guess, attemptsLeft>>,
                                        comparisonText(guess, targetNumber))
         /\ guessHistory' = Append(guessHistory,
                                   HistoryItem(guess, hintArrow(guess, targetNumber)))
         /\ UNCHANGED <<totalScore, reactTimers>>

\* Game.handleGuess(), raw being the guessInput state
handleGuess(raw) ==
    IF currentLevel = NULL \/ targetNumber = NullTarget
    THEN UNCHANGED reactVars
    ELSE LET config == LEVELS[currentLevel]
             guess  == parseInt(raw)
         IN  IF isNaN(guess)
             THEN /\ feedbackMessage' = Feedback("Please enter a valid number!", "error", <<>>, "")
                  /\ UNCHANGED <<currentScreen, currentLevel, targetNumber, attemptsUsed,
                                 totalScore, guessHistory, resultData, reactTimers>>
             ELSE IF outOfRange(guess.value, config)
             THEN /\ feedbackMessage' = Feedback("Number must be between", "error",
                                                 <<config.min, config.max>>, "")
                  /\ UNCHANGED <<currentScreen, currentLevel, targetNumber, attemptsUsed,
                                 totalScore, guessHistory, resultData, reactTimers>>
             ELSE LET newAttempts == attemptsUsed + 1 IN
                  /\ newAttempts <= config.maxAttempts + MaxOverrun
                  /\ attemptsUsed' = newAttempts
                  /\ IF guess.value = targetNumber
                     THEN Game_handleCorrectGuess(newAttempts, config)
                     ELSE Game_handleIncorrectGuess(guess.value, newAttempts, config)
                  /\ UNCHANGED <<currentScreen, currentLevel, targetNumber, resultData>>

\* the setTimeout callback: setResultData(data); setCurrentScreen('result')
Game_resultTimeout(data) ==
    /\ resultData' = data
    /\ currentScreen' = "result"

\* --- events of the page -------------------------------------------------
ReactGuessTexts ==
    IF currentLevel = NULL
    THEN GuessTexts(1, 9, targetNumber)
    ELSE GuessTexts(LEVELS[currentLevel].min, LEVELS[currentLevel].max, targetNumber)

\* level card: onClick={() => startGame(lvl)}
ReactSelectLevel ==
    /\ host = "react" /\ currentScreen = "level"
    /\ \E level \in Level, u \in RandomSamples : Game_startGame(level, u)
    /\ UNCHANGED <<host, domVars>>

\* Submit Guess button / Enter key of the game screen
ReactGuess ==
    /\ host = "react" /\ currentScreen = "game" /\ currentLevel # NULL
    /\ \E raw \in ReactGuessTexts : handleGuess(raw)
    /\ UNCHANGED <<host, domVars>>

ReactResultTimer ==
    /\ host = "react" /\ Len(reactTimers) > 0
    /\ Game_resultTimeout(Head(reactTimers))
    /\ reactTimers' = Tail(reactTimers)
    /\ UNCHANGED <<currentLevel, targetNumber, attemptsUsed, totalScore,
                   guessHistory, feedbackMessage>>
    /\ UNCHANGED <<host, domVars>>

\* Restart button: if (confirm(...)) startGame(currentLevel); ok is the answer
Game_restart(ok, u) ==
    IF ok THEN Game_startGame(currentLevel, u) ELSE UNCHANGED reactVars

ReactRestart ==
    /\ host = "react" /\ currentScreen = "game" /\ currentLevel # NULL
    /\ \E ok \in BOOLEAN, u \in RandomSamples : Game_restart(ok, u)
    /\ UNCHANGED <<host, domVars>>

\* Play Again button: currentLevel && startGame(currentLevel)
ReactPlayAgain ==
    /\ host = "react" /\ currentScreen = "result"
    /\ \E u \in RandomSamples :
          IF currentLevel # NULL THEN Game_startGame(currentLevel, u)
          ELSE UNCHANGED reactVars
    /\ UNCHANGED <<host, domVars>>

\* Change Level buttons: setCurrentScreen('level')
ReactChangeLevel ==
    /\ host = "react"
    /\ \/ currentScreen = "game" /\ currentLevel # NULL
       \/ currentScreen = "result"
    /\ currentScreen' = "level"
    /\ UNCHANGED <<currentLevel, targetNumber, attemptsUsed, totalScore,
                   guessHistory, feedbackMessage, resultData, reactTimers>>
    /\ UNCHANGED <<host, domVars>>

ReactNext ==
    \/ ReactSelectLevel
    \/ ReactGuess
    \/ ReactResultTimer
    \/ ReactRestart
    \/ ReactPlayAgain
    \/ ReactChangeLevel

\* ------------------------------------------------------------------------
\* Specification
\* ------------------------------------------------------------------------
Init ==
    /\ host \in {"dom", "react"}
    /\ DomInit
    /\ ReactInit

Next == DomNext \/ ReactNext

Spec == Init /\ [][Next]_vars

\* the DOM script alone, the React component alone
InitDom == host = "dom" /\ DomInit /\ ReactInit

SpecDom == InitDom /\ [][DomNext]_vars

InitReact == host = "react" /\ DomInit /\ ReactInit

SpecReact == InitReact /\ [][ReactNext]_vars

\* ------------------------------------------------------------------------
\* Views shared by the properties
\* ------------------------------------------------------------------------
TypeOK ==
    /\ host \in {"dom", "react", "both"}
    /\ gameState.currentLevel \in Level \cup {NULL}
    /\ gameState.isGameActive \in BOOLEAN
    /\ gameState.attemptsUsed \in Nat
    /\ gameState.totalScore \in 0..MaxScore
    /\ screen \in {"levelScreen", "gameScreen", "resultScreen"}
    /\ Len(timers) <= MaxTimers
    /\ currentScreen \in {"level", "game", "result"}
    /\ currentLevel \in Level \cup {NULL}
    /\ attemptsUsed \in Nat
    /\ totalScore \in 0..MaxScore
    /\ Len(reactTimers) <= MaxTimers

ExpectedRange == [easy |-> 1..50, medium |-> 1..75, hard |-> 1..100]

ExpectedMaxAttempts == [easy |-> 10, medium |-> 7, hard |-> 5]

ExpectedBonusThreshold == [easy |-> 5, medium |-> 4, hard |-> 3]

\* the text does not parse to a number, or to one outside the level's range
Rejected(raw, level) ==
    isNaN(parseInt(raw)) \/ parseInt(raw).value \notin ExpectedRange[level]

\* script.js: a step of makeGuess on the text raw
DomGuessOf(raw) == host = "dom" /\ screen = "gameScreen" /\ makeGuess(raw)

\* script.js: a step of startGame for one of the three levels
DomStartOf(level) == host = "dom" /\ \E u \in RandomSamples : startGame(level, u)

\* Game.tsx: a step of handleGuess on the text raw
ReactGuessOf(raw) ==
    host = "react" /\ currentScreen = "game" /\ currentLevel # NULL /\ handleGuess(raw)

\* Game.tsx: a step of startGame for one of the three levels
ReactStartOf(level) == host = "react" /\ \E u \in RandomSamples : Game_startGame(level, u)

\* Game.tsx keeps no active flag: guesses are accepted and evaluated while
\* the game screen is rendered and handleGuess passes its guard
ReactAcceptsGuesses ==
    currentScreen = "game" /\ currentLevel # NULL /\ targetNumber # NullTarget

ReactWon == \E i \in 1..Len(guessHistory) : guessHistory[i].hint = "check"

ReactLost == \E i \in 1..Len(guessHistory) : guessHistory[i].hint = "cross"

\* Game.tsx: a session in progress, neither won nor lost so far
ReactSessionOpen == ReactAcceptsGuesses /\ ~ReactWon /\ ~ReactLost

\* ------------------------------------------------------------------------
\* C1: in both implementations attemptsUsed never exceeds the maxAttempts of
\* the current level, whatever is submitted and whenever.
\* Game.tsx breaks it: it has no active flag, so a guess submitted after the
\* last attempt and before the result screen is counted.
\* ------------------------------------------------------------------------
C1_AttemptsNeverExceedMax ==
    /\ gameState.currentLevel # NULL =>
          gameState.attemptsUsed <= ExpectedMaxAttempts[gameState.currentLevel]
    /\ currentLevel # NULL => attemptsUsed <= ExpectedMaxAttempts[currentLevel]

\* ------------------------------------------------------------------------
\* C2: in both implementations a guess submitted while the session is not
\* active (no session, won, lost) changes neither attemptsUsed, history,
\* totalScore, target nor level, whatever the text.
\* Game.tsx breaks it between a terminal guess and the result screen.
\* ------------------------------------------------------------------------
C2_InactiveGuessIsNoOp ==
    [][ /\ \A raw \in DomGuessTexts :
              (~gameState.isGameActive /\ DomGuessOf(raw))
                  => UNCHANGED <<gameState, guessHistoryEl>>
        /\ \A raw \in ReactGuessTexts :
              (~ReactSessionOpen /\ ReactGuessOf(raw))
                  => UNCHANGED <<attemptsUsed, guessHistory, totalScore,
                                 targetNumber, currentLevel>>
      ]_vars

\* ------------------------------------------------------------------------
\* C3: in an active session a guess equal to the target is a win whatever
\* attemptsUsed was, also as the last permitted attempt: the session no
\* longer accepts guesses and the history gains the target marked correct.
\* Game.tsx breaks it: after the win it still accepts guesses.
\* ------------------------------------------------------------------------
C3_TargetGuessWinsAndDeactivates ==
    [][ /\ \A raw \in DomGuessTexts :
              ( /\ gameState.isGameActive
                /\ ~isNaN(parseInt(raw))
                /\ parseInt(raw).value = gameState.targetNumber
                /\ DomGuessOf(raw) )
              => /\ ~gameState'.isGameActive
                 /\ gameState'.totalScore > gameState.totalScore
                 /\ feedbackEl'.type = "success"
                 /\ guessHistoryEl' = Append(guessHistoryEl,
                        [guess |-> gameState.targetNumber, hint |-> "check"])
        /\ \A raw \in ReactGuessTexts :
              ( /\ ReactSessionOpen
                /\ ~isNaN(parseInt(raw))
                /\ parseInt(raw).value = targetNumber
                /\ ReactGuessOf(raw) )
              => /\ ~ReactAcceptsGuesses'
                 /\ totalScore' > totalScore
                 /\ feedbackMessage'.type = "success"
                 /\ guessHistory' = Append(guessHistory,
                        [guess |-> targetNumber, hint |-> "check"])
      ]_vars

\* ------------------------------------------------------------------------
\* C4: a winning guess earns 15 iff attemptsUsed, the winning guess
\* included, is at most the bonus threshold of the level, else 10, and
\* totalScore grows by exactly that.
\* ------------------------------------------------------------------------
C4_ScoreOnWin ==
    [][ /\ (host = "dom" /\ Len(guessHistoryEl') = Len(guessHistoryEl) + 1
            /\ guessHistoryEl'[Len(guessHistoryEl')].hint = "check")
           => gameState'.totalScore - gameState.totalScore =
                 IF gameState'.attemptsUsed
                       <= ExpectedBonusThreshold[gameState.currentLevel]
                 THEN 15 ELSE 10
        /\ (host = "react" /\ Len(guessHistory') = Len(guessHistory) + 1
            /\ guessHistory'[Len(guessHistory')].hint = "check")
           => totalScore' - totalScore =
                 IF attemptsUsed' <= ExpectedBonusThreshold[currentLevel]
                 THEN 15 ELSE 10
      ]_vars

\* a win exactly at the bonus threshold was paid 15
C4_Witness ==
    /\ host = "dom" /\ ~gameState.isGameActive /\ gameState.currentLevel = "medium"
    /\ gameState.attemptsUsed = 4
    /\ Len(guessHistoryEl) = 4 /\ guessHistoryEl[4].hint = "check"
    /\ gameState.totalScore = 15

\* ------------------------------------------------------------------------
\* C5: in an active session a miss that brings attemptsUsed to maxAttempts
\* ends the session with a loss: it no longer accepts guesses, totalScore
\* is unchanged and the guess is recorded with the cross, not an arrow.
\* Game.tsx breaks it: after the loss it still accepts guesses.
\* ------------------------------------------------------------------------
C5_LastMissLoses ==
    [][ /\ \A raw \in DomGuessTexts :
              ( /\ gameState.isGameActive
                /\ ~Rejected(raw, gameState.currentLevel)
                /\ parseInt(raw).value # gameState.targetNumber
                /\ gameState.attemptsUsed + 1 = ExpectedMaxAttempts[gameState.currentLevel]
                /\ DomGuessOf(raw) )
              => /\ ~gameState'.isGameActive
                 /\ gameState'.totalScore = gameState.totalScore
                 /\ guessHistoryEl' = Append(guessHistoryEl,
                        [guess |-> parseInt(raw).value, hint |-> "cross"])
        /\ \A raw \in ReactGuessTexts :
              ( /\ ReactSessionOpen
                /\ ~Rejected(raw, currentLevel)
                /\ parseInt(raw).value # targetNumber
                /\ attemptsUsed + 1 = ExpectedMaxAttempts[currentLevel]
                /\ ReactGuessOf(raw) )
              => /\ ~ReactAcceptsGuesses'
                 /\ totalScore' = totalScore
                 /\ guessHistory' = Append(guessHistory,
                        [guess |-> parseInt(raw).value, hint |-> "cross"])
      ]_vars

\* ------------------------------------------------------------------------
\* C6: in both implementations a guess that is not a number, or is below min
\* or above max of the level, changes the feedback message and nothing else:
\* attemptsUsed, history, active flag, target and totalScore stay.
\* ------------------------------------------------------------------------
C6_RejectedGuessChangesFeedbackOnly ==
    [][ /\ \A raw \in DomGuessTexts :
              ( /\ gameState.isGameActive
                /\ Rejected(raw, gameState.currentLevel)
                /\ DomGuessOf(raw) )
              => /\ UNCHANGED <<gameState, guessHistoryEl, screen, timers>>
                 /\ feedbackEl'.type = "error"
        /\ \A raw \in ReactGuessTexts :
              ( /\ ReactAcceptsGuesses
                /\ Rejected(raw, currentLevel)
                /\ ReactGuessOf(raw) )
              => /\ UNCHANGED <<currentScreen, currentLevel, targetNumber, attemptsUsed,
                                totalScore, guessHistory, resultData, reactTimers>>
                 /\ feedbackMessage'.type = "error"
      ]_vars

\* an out-of-range guess was refused in the middle of a session
C6_Witness ==
    /\ host = "dom" /\ gameState.isGameActive
    /\ gameState.attemptsUsed = 2 /\ Len(guessHistoryEl) = 2
    /\ feedbackEl.text.msg = "Number must be between"

\* ------------------------------------------------------------------------
\* C7: startGame(level), for each of the three levels and from any prior
\* state, leaves target within the level's range, attemptsUsed = 0, an empty
\* history and the session active, and does not touch totalScore.
\* ------------------------------------------------------------------------
C7_StartGameResetsSession ==
    [][ /\ \A level \in Level :
              DomStartOf(level)
              => /\ gameState'.currentLevel = level
                 /\ gameState'.targetNumber \in ExpectedRange[level]
                 /\ gameState'.attemptsUsed = 0
                 /\ gameState'.guessHistory = <<>> /\ guessHistoryEl' = <<>>
                 /\ gameState'.isGameActive
                 /\ screen' = "gameScreen"
                 /\ gameState'.totalScore = gameState.totalScore
        /\ \A level \in Level :
              ReactStartOf(level)
              => /\ currentLevel' = level
                 /\ targetNumber' \in ExpectedRange[level]
                 /\ attemptsUsed' = 0
                 /\ guessHistory' = <<>>
                 /\ ReactSessionOpen'
                 /\ totalScore' = totalScore
      ]_vars

\* a fresh session started after an earlier one was won
C7_Witness ==
    /\ host = "dom" /\ gameState.isGameActive /\ gameState.currentLevel = "easy"
    /\ gameState.targetNumber = 50
    /\ gameState.attemptsUsed = 0 /\ guessHistoryEl = <<>>
    /\ gameState.totalScore = 15

\* ------------------------------------------------------------------------
\* C8: whenever the session is active (guesses are accepted and evaluated),
\* attemptsUsed < maxAttempts and no guess in the history equals the target.
\* Game.tsx breaks it between a terminal guess and the result screen.
\* ------------------------------------------------------------------------
C8_ActiveOnlyBeforeWinOrLoss ==
    /\ gameState.isGameActive =>
          /\ gameState.attemptsUsed < ExpectedMaxAttempts[gameState.currentLevel]
          /\ \A i \in 1..Len(guessHistoryEl) :
                guessHistoryEl[i].guess # gameState.targetNumber
    /\ ReactAcceptsGuesses =>
          /\ attemptsUsed < ExpectedMaxAttempts[currentLevel]
          /\ \A i \in 1..Len(guessHistory) : guessHistory[i].guess # targetNumber

\* ------------------------------------------------------------------------
\* C9: totalScore is never negative; only a winning guess (adds the score
\* earned) and a confirmed resetTotalScore (sets 0) change it; startGame,
\* restart, changeLevel, playAgain, misses, rejected guesses and the result
\* timers leave it alone.
\* ------------------------------------------------------------------------
C9_ScoreChangesOnlyByWinOrReset ==
    [][ /\ gameState.totalScore >= 0 /\ gameState'.totalScore >= 0
        /\ totalScore >= 0 /\ totalScore' >= 0
        /\ gameState'.totalScore # gameState.totalScore =>
              \/ /\ \E raw \in DomGuessTexts : DomGuessOf(raw)
                 /\ guessHistoryEl' = Append(guessHistoryEl,
                        [guess |-> gameState.targetNumber, hint |-> "check"])
                 /\ gameState'.totalScore > gameState.totalScore
              \/ /\ host = "dom" /\ resetTotalScore(TRUE)
                 /\ gameState'.totalScore = 0
        /\ totalScore' # totalScore =>
              /\ \E raw \in ReactGuessTexts : ReactGuessOf(raw)
              /\ guessHistory' = Append(guessHistory,
                     [guess |-> targetNumber, hint |-> "check"])
              /\ totalScore' > totalScore
        /\ (DomSelectLevel \/ DomPlayAgain \/ DomResetGame \/ DomChangeLevel
               \/ DomResultTimer)
              => gameState'.totalScore = gameState.totalScore
        /\ (ReactSelectLevel \/ ReactPlayAgain \/ ReactRestart \/ ReactChangeLevel
               \/ ReactResultTimer)
              => totalScore' = totalScore
      ]_vars

\* the score of two won sessions, carried into a third one
C9_Witness ==
    /\ host = "dom" /\ gameState.isGameActive
    /\ gameState.totalScore = 20 /\ gameState.attemptsUsed = 1

\* ------------------------------------------------------------------------
\* C10: once set, the target changes only in a startGame: guesses,
\* resetTotalScore, changeLevel and the result timers leave it alone.
\* ------------------------------------------------------------------------
C10_TargetFixedWithinSession ==
    [][ /\ gameState'.targetNumber # gameState.targetNumber =>
              \E level \in Level : DomStartOf(level)
        /\ targetNumber' # targetNumber =>
              \E level \in Level : ReactStartOf(level)
        /\ ( \/ DomMakeGuess \/ DomResetTotalScore \/ DomChangeLevel \/ DomResultTimer )
              => gameState'.targetNumber = gameState.targetNumber
        /\ ( \/ ReactGuess \/ ReactChangeLevel \/ ReactResultTimer )
              => targetNumber' = targetNumber
      ]_vars

\* several guesses of one session, all compared against one target
C10_Witness ==
    /\ host = "dom" /\ gameState.isGameActive /\ gameState.currentLevel = "hard"
    /\ gameState.targetNumber = 100
    /\ gameState.attemptsUsed = 4 /\ Len(guessHistoryEl) = 4
    /\ \A i \in 1..4 : guessHistoryEl[i].hint = "up"

\* ------------------------------------------------------------------------
\* C11: every valid in-range guess that differs from the target is recorded
\* with the direction to go: up arrow when guess < target, down arrow when
\* guess > target.
\* As stated it fails on the miss that uses up the last attempt, which both
\* files record with the cross.
\* ------------------------------------------------------------------------
C11_EveryMissRecordsDirection ==
    [][ /\ ( /\ host = "dom" /\ Len(guessHistoryEl') = Len(guessHistoryEl) + 1
             /\ guessHistoryEl'[Len(guessHistoryEl')].guess # gameState.targetNumber )
           => guessHistoryEl'[Len(guessHistoryEl')].hint =
                 IF guessHistoryEl'[Len(guessHistoryEl')].guess < gameState.targetNumber
                 THEN "up" ELSE "down"
        /\ ( /\ host = "react" /\ Len(guessHistory') = Len(guessHistory) + 1
             /\ guessHistory'[Len(guessHistory')].guess # targetNumber )
           => guessHistory'[Len(guessHistory')].hint =
                 IF guessHistory'[Len(guessHistory')].guess < targetNumber
                 THEN "up" ELSE "down"
      ]_vars

\* C11 as amended: a miss that leaves attemptsUsed different from
\* maxAttempts is recorded with the up arrow when guess < target and the
\* down arrow when guess > target; the miss that brings attemptsUsed to
\* maxAttempts is recorded with the cross.
C11_NonFinalMissRecordsDirection ==
    [][ /\ ( /\ host = "dom" /\ Len(guessHistoryEl') = Len(guessHistoryEl) + 1
             /\ guessHistoryEl'[Len(guessHistoryEl')].guess # gameState.targetNumber )
           => guessHistoryEl'[Len(guessHistoryEl')].hint =
                 IF gameState'.attemptsUsed = ExpectedMaxAttempts[gameState.currentLevel]
                 THEN "cross"
                 ELSE IF guessHistoryEl'[Len(guessHistoryEl')].guess < gameState.targetNumber
                 THEN "up" ELSE "down"
        /\ ( /\ host = "react" /\ Len(guessHistory') = Len(guessHistory) + 1
             /\ guessHistory'[Len(guessHistory')].guess # targetNumber )
           => guessHistory'[Len(guessHistory')].hint =
                 IF attemptsUsed' = ExpectedMaxAttempts[currentLevel]
                 THEN "cross"
                 ELSE IF guessHistory'[Len(guessHistory')].guess < targetNumber
                 THEN "up" ELSE "down"
      ]_vars

\* a guess above the target was recorded with the down arrow, with attempts left
C11_Witness ==
    /\ host = "react" /\ currentLevel = "medium" /\ targetNumber = 1
    /\ attemptsUsed = 2 /\ Len(guessHistory) = 2
    /\ guessHistory[2] = [guess |-> 75, hint |-> "down"]

\* ------------------------------------------------------------------------
\* C12: changeLevel, from any state, deactivates the session (no guess is
\* accepted any more and the level is none) and leaves totalScore alone, in
\* script.js changeLevel and in the Change Level buttons of Game.tsx.
\* Game.tsx breaks it: its buttons only switch the screen, currentLevel
\* keeps the level of the abandoned session.
\* ------------------------------------------------------------------------
C12_ChangeLevelDeactivates ==
    [][ /\ DomChangeLevel
              => /\ ~gameState'.isGameActive
                 /\ gameState'.currentLevel = NULL
                 /\ gameState'.totalScore = gameState.totalScore
        /\ ReactChangeLevel
              => /\ ~ReactAcceptsGuesses'
                 /\ currentLevel' = NULL
                 /\ totalScore' = totalScore
      ]_vars

\* ------------------------------------------------------------------------
\* C13: a confirmed resetTotalScore sets totalScore to 0 whatever it was and
\* leaves attemptsUsed, history, active flag, level and target unchanged.
\* (Game.tsx has no score reset.)
\* ------------------------------------------------------------------------
C13_ResetScoreOnlyClearsScore ==
    [][ (host = "dom" /\ resetTotalScore(TRUE))
           => /\ gameState'.totalScore = 0
              /\ gameState'.attemptsUsed = gameState.attemptsUsed
              /\ gameState'.isGameActive = gameState.isGameActive
              /\ gameState'.currentLevel = gameState.currentLevel
              /\ gameState'.targetNumber = gameState.targetNumber
              /\ guessHistoryEl' = guessHistoryEl
      ]_vars

\* the score was reset after a session was won on its third guess
C13_Witness ==
    /\ host = "dom" /\ ~gameState.isGameActive /\ gameState.currentLevel # NULL
    /\ gameState.attemptsUsed = 3 /\ Len(guessHistoryEl) = 3
    /\ guessHistoryEl[3].hint = "check"
    /\ gameState.totalScore = 0

\* ------------------------------------------------------------------------
\* Session state of each implementation, read off its own state: no session
\* while the level is none, active while guesses of the session are open,
\* else won or lost according to what the history recorded.
\* ------------------------------------------------------------------------
DomSessionState ==
    IF gameState.currentLevel = NULL THEN "NoSession"
    ELSE IF gameState.isGameActive THEN "Active"
    ELSE IF Len(guessHistoryEl) > 0
            /\ guessHistoryEl[Len(guessHistoryEl)].hint = "check" THEN "Won"
    ELSE "Lost"

ReactSessionState ==
    IF currentLevel = NULL THEN "NoSession"
    ELSE IF ReactWon THEN "Won"
    ELSE IF ReactLost THEN "Lost"
    ELSE "Active"

\* the transitions the state machine of the design allows
AllowedTransition(a, b) ==
    \/ a = "NoSession" /\ b = "Active"
    \/ a = "Active" /\ b \in {"Won", "Lost"}
    \/ a \in {"Won", "Lost"} /\ b = "NoSession"
    \/ a \in {"Won", "Lost"} /\ b = "Active"

\* ------------------------------------------------------------------------
\* C14: the session state changes only NoSession -> Active (startGame),
\* Active -> Won or Lost (terminal guess), Won or Lost -> NoSession
\* (changeLevel), Won or Lost -> Active (startGame); nothing else.
\* Game.tsx breaks it: a lost session that guesses the target before the
\* result screen appears becomes a won one.  (script.js changeLevel on the
\* game screen also takes Active to NoSession, which the list leaves out.)
\* ------------------------------------------------------------------------
C14_OnlyDesignedTransitions ==
    [][ /\ DomSessionState' # DomSessionState =>
              /\ AllowedTransition(DomSessionState, DomSessionState')
              /\ DomSessionState' = "Active" => \E level \in Level : DomStartOf(level)
              /\ DomSessionState' \in {"Won", "Lost"} => DomMakeGuess
              /\ DomSessionState' = "NoSession" => DomChangeLevel
        /\ ReactSessionState' # ReactSessionState =>
              /\ AllowedTransition(ReactSessionState, ReactSessionState')
              /\ ReactSessionState' = "Active" => \E level \in Level : ReactStartOf(level)
              /\ ReactSessionState' \in {"Won", "Lost"} => ReactGuess
              /\ ReactSessionState' = "NoSession" => ReactChangeLevel
      ]_vars


\* ------------------------------------------------------------------------
\* The two implementations side by side: one player, two pages, every input
\* (button, text typed, confirm() answer, Math.random() draw) given to both.
\* An input is given when both pages show its control; the 1.5 s of the
\* result timers pass on both pages at once.
\* ------------------------------------------------------------------------
BothSelectLevel ==
    /\ host = "both" /\ screen = "levelScreen" /\ currentScreen = "level"
    /\ \E level \in Level, u \in RandomSamples :
          startGame(level, u) /\ Game_startGame(level, u)
    /\ UNCHANGED host

BothGuess ==
    /\ host = "both" /\ screen = "gameScreen"
    /\ currentScreen = "game" /\ currentLevel # NULL
    /\ \E raw \in DomGuessTexts \cup ReactGuessTexts : makeGuess(raw) /\ handleGuess(raw)
    /\ UNCHANGED host

BothResultTimer ==
    /\ host = "both" /\ (Len(timers) > 0 \/ Len(reactTimers) > 0)
    /\ IF Len(timers) > 0
       THEN /\ showResultScreen(Head(timers).won, Head(timers).scoreEarned,
                                Head(timers).bonusEarned)
            /\ timers' = Tail(timers)
            /\ UNCHANGED <<gameState, guessHistoryEl, feedbackEl>>
       ELSE UNCHANGED domVars
    /\ IF Len(reactTimers) > 0
       THEN /\ Game_resultTimeout(Head(reactTimers))
            /\ reactTimers' = Tail(reactTimers)
            /\ UNCHANGED <<currentLevel, targetNumber, attemptsUsed, totalScore,
                           guessHistory, feedbackMessage>>
       ELSE UNCHANGED reactVars
    /\ UNCHANGED host

BothPlayAgain ==
    /\ host = "both" /\ screen = "resultScreen" /\ currentScreen = "result"
    /\ \E u \in RandomSamples :
          /\ playAgain(u)
          /\ IF currentLevel # NULL THEN Game_startGame(currentLevel, u)
             ELSE UNCHANGED reactVars
    /\ UNCHANGED host

BothRestart ==
    /\ host = "both" /\ screen = "gameScreen"
    /\ currentScreen = "game" /\ currentLevel # NULL
    /\ \E ok \in BOOLEAN, u \in RandomSamples :
          /\ resetGame(ok, u)
          /\ Game_restart(ok, u)
    /\ UNCHANGED host

BothChangeLevel ==
    /\ host = "both" /\ screen \in {"gameScreen", "resultScreen"}
    /\ \/ currentScreen = "game" /\ currentLevel # NULL
       \/ currentScreen = "result"
    /\ changeLevel
    /\ currentScreen' = "level"
    /\ UNCHANGED <<currentLevel, targetNumber, attemptsUsed, totalScore,
                   guessHistory, feedbackMessage, resultData, reactTimers>>
    /\ UNCHANGED host

SyncNext ==
    \/ BothSelectLevel
    \/ BothGuess
    \/ BothResultTimer
    \/ BothPlayAgain
    \/ BothRestart
    \/ BothChangeLevel

InitSync == host = "both" /\ DomInit /\ ReactInit

SpecSync == InitSync /\ [][SyncNext]_vars

\* C15: given the same inputs, script.js and Game.tsx agree after every step
\* on the level, the target, the attempts used, the total score, the history
\* chips and on whether guesses are accepted.
C15_ImplementationsAgree ==
    host = "both" =>
        /\ gameState.currentLevel = currentLevel
        /\ gameState.targetNumber = targetNumber
        /\ gameState.attemptsUsed = attemptsUsed
        /\ gameState.totalScore = totalScore
        /\ guessHistoryEl = guessHistory
        /\ gameState.isGameActive <=> ReactAcceptsGuesses


\* ------------------------------------------------------------------------
\* C16: every session terminates within maxAttempts counted guesses: in a
\* session in progress every valid in-range guess is counted (attemptsUsed
\* grows by one and stays within maxAttempts), and the guess that is correct
\* or that brings attemptsUsed to maxAttempts leaves the session inactive.
\* Game.tsx breaks it: after that guess it still accepts guesses.
\* ------------------------------------------------------------------------
C16_SessionEndsWithinMaxAttempts ==
    [][ /\ \A raw \in DomGuessTexts :
              (/\ DomGuessOf(raw)
               /\ gameState.isGameActive
               /\ ~Rejected(raw, gameState.currentLevel))
              => /\ gameState'.attemptsUsed = gameState.attemptsUsed + 1
                 /\ gameState'.attemptsUsed <= ExpectedMaxAttempts[gameState.currentLevel]
                 /\ (\/ parseInt(raw).value = gameState.targetNumber
                     \/ gameState'.attemptsUsed = ExpectedMaxAttempts[gameState.currentLevel])
                    => ~gameState'.isGameActive
        /\ \A raw \in ReactGuessTexts :
              (/\ ReactGuessOf(raw)
               /\ ReactSessionOpen
               /\ ~Rejected(raw, currentLevel))
              => /\ attemptsUsed' = attemptsUsed + 1
                 /\ attemptsUsed' <= ExpectedMaxAttempts[currentLevel]
                 /\ (\/ parseInt(raw).value = targetNumber
                     \/ attemptsUsed' = ExpectedMaxAttempts[currentLevel])
                    => ~ReactAcceptsGuesses'
      ]_vars


\* ------------------------------------------------------------------------
\* The scenario of the easy level with the target fixed at 25: Math.random()
\* is replaced by a generator whose draws all give 25, and the player types
\* 10, 40 or 25, at most ScenarioGuesses counted guesses in a session.
\* ------------------------------------------------------------------------
ScenarioGuesses == 4

ScenarioSamples ==
    {u \in 0..(RandDenom - 1) :
        getRandomNumber(LEVELS["easy"].min, LEVELS["easy"].max, u) = 25}

ScenarioTexts == {IntText(10), IntText(40), IntText(25)}

ScenarioDomStart ==
    /\ host = "dom" /\ screen = "levelScreen"
    /\ \E u \in ScenarioSamples : startGame("easy", u)
    /\ UNCHANGED <<host, reactVars>>

ScenarioDomGuess ==
    /\ host = "dom" /\ screen = "gameScreen"
    /\ gameState.attemptsUsed < ScenarioGuesses
    /\ \E raw \in ScenarioTexts : makeGuess(raw)
    /\ UNCHANGED <<host, reactVars>>

ScenarioReactStart ==
    /\ host = "react" /\ currentScreen = "level"
    /\ \E u \in ScenarioSamples : Game_startGame("easy", u)
    /\ UNCHANGED <<host, domVars>>

ScenarioReactGuess ==
    /\ host = "react" /\ currentScreen = "game" /\ currentLevel # NULL
    /\ attemptsUsed < ScenarioGuesses
    /\ \E raw \in ScenarioTexts : handleGuess(raw)
    /\ UNCHANGED <<host, domVars>>

ScenarioNext ==
    \/ ScenarioDomStart
    \/ ScenarioDomGuess
    \/ DomResultTimer
    \/ DomChangeLevel
    \/ ScenarioReactStart
    \/ ScenarioReactGuess
    \/ ReactResultTimer
    \/ ReactChangeLevel

SpecScenario == Init /\ [][ScenarioNext]_vars

\* C17: easy level, target 25, fresh session: guess 10 is a miss with the
\* hint pointing up (go higher), 9 attempts left and severity info; then
\* guess 40 is a miss with the hint pointing down and 8 attempts left; then
\* guess 25 wins with attemptsUsed = 3, 15 points earned and the bonus.
C17_EasyTarget25Scenario ==
    [][ /\ (/\ DomGuessOf(IntText(10))
            /\ gameState.isGameActive /\ gameState.currentLevel = "easy"
            /\ gameState.targetNumber = 25 /\ gameState.attemptsUsed = 0
            /\ guessHistoryEl = <<>>)
           => /\ guessHistoryEl' = <<[guess |-> 10, hint |-> "up"]>>
              /\ feedbackEl'.type = "info"
              /\ feedbackEl'.text.args = <<10, 9>>
              /\ gameState'.isGameActive /\ gameState'.attemptsUsed = 1
        /\ (/\ DomGuessOf(IntText(40))
            /\ gameState.isGameActive /\ gameState.currentLevel = "easy"
            /\ gameState.targetNumber = 25
            /\ guessHistoryEl = <<[guess |-> 10, hint |-> "up"]>>)
           => /\ guessHistoryEl' = <<[guess |-> 10, hint |-> "up"],
                                     [guess |-> 40, hint |-> "down"]>>
              /\ feedbackEl'.text.args = <<40, 8>>
              /\ gameState'.isGameActive /\ gameState'.attemptsUsed = 2
        /\ (/\ DomGuessOf(IntText(25))
            /\ gameState.isGameActive /\ gameState.currentLevel = "easy"
            /\ gameState.targetNumber = 25
            /\ guessHistoryEl = <<[guess |-> 10, hint |-> "up"],
                                  [guess |-> 40, hint |-> "down"]>>)
           => /\ guessHistoryEl'[3] = [guess |-> 25, hint |-> "check"]
              /\ gameState'.attemptsUsed = 3
              /\ gameState'.totalScore = gameState.totalScore + 15
              /\ feedbackEl'.type = "success"
              /\ timers'[Len(timers')] = [won |-> TRUE, scoreEarned |-> 15,
                                          bonusEarned |-> TRUE]
        /\ (/\ ReactGuessOf(IntText(10))
            /\ currentLevel = "easy" /\ targetNumber = 25 /\ attemptsUsed = 0
            /\ guessHistory = <<>>)
           => /\ guessHistory' = <<[guess |-> 10, hint |-> "up"]>>
              /\ feedbackMessage'.type = "info"
              /\ feedbackMessage'.text.args = <<10, 9>>
              /\ attemptsUsed' = 1
        /\ (/\ ReactGuessOf(IntText(40))
            /\ currentLevel = "easy" /\ targetNumber = 25
            /\ guessHistory = <<[guess |-> 10, hint |-> "up"]>>)
           => /\ guessHistory' = <<[guess |-> 10, hint |-> "up"],
                                   [guess |-> 40, hint |-> "down"]>>
              /\ feedbackMessage'.text.args = <<40, 8>>
              /\ attemptsUsed' = 2
        /\ (/\ ReactGuessOf(IntText(25))
            /\ currentLevel = "easy" /\ targetNumber = 25
            /\ guessHistory = <<[guess |-> 10, hint |-> "up"],
                                [guess |-> 40, hint |-> "down"]>>)
           => /\ guessHistory'[3] = [guess |-> 25, hint |-> "check"]
              /\ attemptsUsed' = 3
              /\ totalScore' = totalScore + 15
              /\ feedbackMessage'.type = "success"
              /\ reactTimers'[Len(reactTimers')] = [won |-> TRUE, scoreEarned |-> 15,
                                                    bonusEarned |-> TRUE]
      ]_vars

\* Game.tsx has played the scenario to its end and shows the result
C17_Witness ==
    /\ host = "react" /\ currentScreen = "result"
    /\ currentLevel = "easy" /\ targetNumber = 25 /\ attemptsUsed = 3
    /\ guessHistory = <<[guess |-> 10, hint |-> "up"], [guess |-> 40, hint |-> "down"],
                        [guess |-> 25, hint |-> "check"]>>
    /\ totalScore = 15
    /\ resultData = [won |-> TRUE, scoreEarned |-> 15, bonusEarned |-> TRUE]


\* ------------------------------------------------------------------------
\* C18: a declined confirmation changes nothing: after "Cancel" on the
\* restart prompt (script.js resetGame, Game.tsx Restart button) or on the
\* reset-score prompt (script.js resetTotalScore) the level, the target,
\* attemptsUsed, the history, the active flag and totalScore are as before.
\* ------------------------------------------------------------------------
C18_DeclinedConfirmChangesNothing ==
    [][ /\ (/\ host = "dom" /\ screen = "gameScreen"
            /\ \E u \in RandomSamples : resetGame(FALSE, u))
           => UNCHANGED <<gameState, guessHistoryEl>>
        /\ (host = "dom" /\ resetTotalScore(FALSE))
           => UNCHANGED <<gameState, guessHistoryEl>>
        /\ (/\ host = "react" /\ currentScreen = "game" /\ currentLevel # NULL
            /\ \E u \in RandomSamples : Game_restart(FALSE, u))
           => /\ UNCHANGED <<currentLevel, targetNumber, attemptsUsed,
                             totalScore, guessHistory>>
              /\ ReactAcceptsGuesses' = ReactAcceptsGuesses
      ]_vars

\* script.js in the middle of a session with points on the score, where the
\* Restart and Reset Score prompts can be answered with "Cancel"
C18_Witness ==
    /\ host = "dom" /\ screen = "gameScreen"
    /\ gameState.isGameActive
    /\ gameState.attemptsUsed = 2 /\ Len(guessHistoryEl) = 2
    /\ gameState.totalScore = 15
    /\ ENABLED (\E u \in RandomSamples : resetGame(FALSE, u))


\* ------------------------------------------------------------------------
\* Texts with fractions on the hard level: the player types numbers with a
\* decimal point, a bare fraction, letters or nothing.
\* ------------------------------------------------------------------------
FractionTexts ==
    { <<"3", ".", "7">>, <<"-", "3", ".", "7">>,
      <<".", "7">>, <<"a", "b", "c">>, <<>> }

\* the texts of FractionTexts in which no integer leads
NoLeadingInteger == { <<".", "7">>, <<"a", "b", "c">>, <<>> }

FractionDomStart ==
    /\ host = "dom" /\ screen = "levelScreen"
    /\ \E u \in RandomSamples : startGame("hard", u)
    /\ UNCHANGED <<host, reactVars>>

FractionDomGuess ==
    /\ host = "dom" /\ screen = "gameScreen"
    /\ \E raw \in FractionTexts : makeGuess(raw)
    /\ UNCHANGED <<host, reactVars>>

FractionReactStart ==
    /\ host = "react" /\ currentScreen = "level"
    /\ \E u \in RandomSamples : Game_startGame("hard", u)
    /\ UNCHANGED <<host, domVars>>

FractionReactGuess ==
    /\ host = "react" /\ currentScreen = "game" /\ currentLevel # NULL
    /\ \E raw \in FractionTexts : handleGuess(raw)
    /\ UNCHANGED <<host, domVars>>

FractionNext ==
    \/ FractionDomStart
    \/ FractionDomGuess
    \/ DomResultTimer
    \/ DomChangeLevel
    \/ FractionReactStart
    \/ FractionReactGuess
    \/ ReactResultTimer
    \/ ReactChangeLevel

SpecFraction == Init /\ [][FractionNext]_vars

\* C19: the guess is the truncated integer at the head of the text: "3.7" is
\* evaluated as 3 in both implementations and takes one attempt (3 is inside
\* the range), and a text with no leading integer is rejected as invalid
\* without taking an attempt.
C19_GuessIsTruncatedNotRounded ==
    [][ /\ (DomGuessOf(<<"3", ".", "7">>) /\ gameState.isGameActive)
           => /\ gameState'.attemptsUsed = gameState.attemptsUsed + 1
              /\ Len(guessHistoryEl') = Len(guessHistoryEl) + 1
              /\ guessHistoryEl'[Len(guessHistoryEl')].guess = 3
        /\ (ReactGuessOf(<<"3", ".", "7">>) /\ ReactAcceptsGuesses)
           => /\ attemptsUsed' = attemptsUsed + 1
              /\ Len(guessHistory') = Len(guessHistory) + 1
              /\ guessHistory'[Len(guessHistory')].guess = 3
        /\ \A raw \in NoLeadingInteger :
              /\ (DomGuessOf(raw) /\ gameState.isGameActive)
                 => /\ feedbackEl'.text.msg = "Please enter a valid number!"
                    /\ feedbackEl'.type = "error"
                    /\ UNCHANGED <<gameState, guessHistoryEl>>
              /\ (ReactGuessOf(raw) /\ ReactAcceptsGuesses)
                 => /\ feedbackMessage'.text.msg = "Please enter a valid number!"
                    /\ feedbackMessage'.type = "error"
                    /\ UNCHANGED <<attemptsUsed, guessHistory, totalScore>>
      ]_vars

\* Game.tsx after "3.7" was submitted twice in a fresh session
C19_Witness ==
    /\ host = "react" /\ currentScreen = "game"
    /\ attemptsUsed = 2
    /\ Len(guessHistory) = 2
    /\ guessHistory[1].guess = 3 /\ guessHistory[2].guess = 3


\* ------------------------------------------------------------------------
\* C20: the history is append-only within a session and reset by startGame:
\* a step either leaves it alone (rejected guesses, resetTotalScore, timers,
\* changeLevel), or is a counted guess that puts exactly one entry at its
\* end, or is a startGame that empties it; every counted guess appends and
\* every startGame of a level leaves it empty.
\* ------------------------------------------------------------------------
C20_HistoryAppendOnly ==
    [][ /\ \/ guessHistoryEl' = guessHistoryEl
           \/ /\ \E raw \in DomGuessTexts : DomGuessOf(raw)
              /\ gameState'.attemptsUsed = gameState.attemptsUsed + 1
              /\ Len(guessHistoryEl') = Len(guessHistoryEl) + 1
              /\ SubSeq(guessHistoryEl', 1, Len(guessHistoryEl)) = guessHistoryEl
           \/ /\ \E level \in Level : DomStartOf(level)
              /\ guessHistoryEl' = <<>>
        /\ gameState'.attemptsUsed = gameState.attemptsUsed + 1
           => Len(guessHistoryEl') = Len(guessHistoryEl) + 1
        /\ (\E level \in Level : DomStartOf(level)) => guessHistoryEl' = <<>>
        /\ \/ guessHistory' = guessHistory
           \/ /\ \E raw \in ReactGuessTexts : ReactGuessOf(raw)
              /\ attemptsUsed' = attemptsUsed + 1
              /\ Len(guessHistory') = Len(guessHistory) + 1
              /\ SubSeq(guessHistory', 1, Len(guessHistory)) = guessHistory
           \/ /\ \E level \in Level : ReactStartOf(level)
              /\ guessHistory' = <<>>
        /\ attemptsUsed' = attemptsUsed + 1
           => Len(guessHistory') = Len(guessHistory) + 1
        /\ (\E level \in Level : ReactStartOf(level)) => guessHistory' = <<>>
      ]_vars

\* Game.tsx one miss into a new session that follows a session won without
\* the bonus, whose history had at least four entries
C20_Witness ==
    /\ host = "react" /\ currentScreen = "game"
    /\ totalScore = 10
    /\ attemptsUsed = 1 /\ Len(guessHistory) = 1
    /\ guessHistory[1].hint \in {"up", "down"}


\* ------------------------------------------------------------------------
\* C21: a miss that is not the final one (it is recorded with an arrow)
\* reports attemptsLeft = maxAttempts - attemptsUsed, counted after the
\* guess, with severity warning exactly when attemptsLeft is 1 or 2 and info
\* exactly when attemptsLeft is 3 or more, on every level.
\* Game.tsx breaks it: a miss evaluated after the last attempt reports a
\* negative attemptsLeft with severity warning.
\* ------------------------------------------------------------------------
C21_SeverityFollowsAttemptsLeft ==
    [][ /\ ( /\ host = "dom" /\ Len(guessHistoryEl') = Len(guessHistoryEl) + 1
             /\ guessHistoryEl'[Len(guessHistoryEl')].hint \in {"up", "down"} )
           => LET attemptsLeft == ExpectedMaxAttempts[gameState.currentLevel]
                                  - gameState'.attemptsUsed
              IN  /\ feedbackEl'.text.args[2] = attemptsLeft
                  /\ feedbackEl'.type = "warning" <=> attemptsLeft \in {1, 2}
                  /\ feedbackEl'.type = "info" <=> attemptsLeft >= 3
        /\ ( /\ host = "react" /\ Len(guessHistory') = Len(guessHistory) + 1
             /\ guessHistory'[Len(guessHistory')].hint \in {"up", "down"} )
           => LET attemptsLeft == ExpectedMaxAttempts[currentLevel] - attemptsUsed'
              IN  /\ feedbackMessage'.text.args[2] = attemptsLeft
                  /\ feedbackMessage'.type = "warning" <=> attemptsLeft \in {1, 2}
                  /\ feedbackMessage'.type = "info" <=> attemptsLeft >= 3
      ]_vars


\* ------------------------------------------------------------------------
\* C22: for every miss recorded with an arrow, script.js and Game.tsx show
\* the same word and the same arrow, both fixed by guess and target alone:
\* guess below target gives the word "lower" and the up arrow, guess above
\* target gives "higher" and the down arrow.
\* ------------------------------------------------------------------------
C22_WordAndArrowAgree ==
    [][ /\ ( /\ host = "dom" /\ Len(guessHistoryEl') = Len(guessHistoryEl) + 1
             /\ guessHistoryEl'[Len(guessHistoryEl')].hint \in {"up", "down"} )
           => LET guess == guessHistoryEl'[Len(guessHistoryEl')].guess
              IN  /\ guess # gameState.targetNumber
                  /\ feedbackEl'.text.args[1] = guess
                  /\ guess < gameState.targetNumber
                     => /\ feedbackEl'.text.word = "lower"
                        /\ guessHistoryEl'[Len(guessHistoryEl')].hint = "up"
                  /\ guess > gameState.targetNumber
                     => /\ feedbackEl'.text.word = "higher"
                        /\ guessHistoryEl'[Len(guessHistoryEl')].hint = "down"
        /\ ( /\ host = "react" /\ Len(guessHistory') = Len(guessHistory) + 1
             /\ guessHistory'[Len(guessHistory')].hint \in {"up", "down"} )
           => LET guess == guessHistory'[Len(guessHistory')].guess
              IN  /\ guess # targetNumber
                  /\ feedbackMessage'.text.args[1] = guess
                  /\ guess < targetNumber
                     => /\ feedbackMessage'.text.word = "lower"
                        /\ guessHistory'[Len(guessHistory')].hint = "up"
                  /\ guess > targetNumber
                     => /\ feedbackMessage'.text.word = "higher"
                        /\ guessHistory'[Len(guessHistory')].hint = "down"
      ]_vars

\* script.js after a first guess of 50 against the target 1 on the easy level
C22_Witness ==
    /\ host = "dom" /\ gameState.isGameActive
    /\ gameState.currentLevel = "easy" /\ gameState.targetNumber = 1
    /\ guessHistoryEl = <<[guess |-> 50, hint |-> "down"]>>
    /\ feedbackEl.text.word = "higher" /\ feedbackEl.text.args = <<50, 9>>


\* ------------------------------------------------------------------------
\* C23: a session awards score at most once: totalScore grows only in a
\* session whose history holds no correct guess yet (startGame empties the
\* history), also when the target is submitted again between the winning
\* guess and the result screen.
\* Game.tsx breaks it: the second submission of the target is scored again.
\* ------------------------------------------------------------------------
C23_ScoreAwardedOncePerSession ==
    [][ /\ gameState'.totalScore > gameState.totalScore
           => \A i \in 1..Len(guessHistoryEl) : guessHistoryEl[i].hint # "check"
        /\ totalScore' > totalScore
           => \A i \in 1..Len(guessHistory) : guessHistory[i].hint # "check"
      ]_vars


\* ------------------------------------------------------------------------
\* C24: whenever the result screen is shown it belongs to the session that
\* just ended: no session is active under it, and the session it reports
\* (target and attempts are read from the current state) ended with a
\* correct guess or with the final miss; a restart or a change of level
\* between the terminal guess and the timer does not bring the result
\* screen over a new session.
\* Both files break it: the timer of setTimeout is never cancelled.
\* ------------------------------------------------------------------------
C24_ResultScreenOfEndedSession ==
    /\ (host = "dom" /\ screen = "resultScreen")
       => /\ ~gameState.isGameActive
          /\ Len(guessHistoryEl) > 0
          /\ guessHistoryEl[Len(guessHistoryEl)].hint \in {"check", "cross"}
    /\ (host = "react" /\ currentScreen = "result")
       => /\ ReactWon \/ ReactLost
          /\ Len(guessHistory) > 0


\* ------------------------------------------------------------------------
\* C25: startGame only ever gets one of the three level names: in every
\* state in which Play Again (result screen) or Restart (game screen) can be
\* pressed the current level is not null, so LEVELS[level] is defined.
\* script.js breaks it: changeLevel pressed before a pending result timer
\* fires leaves the result screen showing with currentLevel null.
\* ------------------------------------------------------------------------
C25_StartGameLevelDefined ==
    /\ (host = "dom" /\ screen \in {"gameScreen", "resultScreen"})
       => gameState.currentLevel \in Level
    /\ (host = "react" /\ currentScreen \in {"game", "result"})
       => currentLevel \in Level


\* ------------------------------------------------------------------------
\* C26: in every reachable state the number of history entries equals
\* attemptsUsed: a counted guess adds one entry and one attempt, a rejected
\* guess adds neither, startGame clears both. (The history of script.js is
\* the list of chips of the page; its gameState.guessHistory array is only
\* ever emptied.)
\* ------------------------------------------------------------------------
C26_HistoryLengthIsAttemptsUsed ==
    /\ Len(guessHistoryEl) = gameState.attemptsUsed
    /\ Len(guessHistory) = attemptsUsed

\* Game.tsx three counted guesses into a session, the last submission having
\* been rejected as not a number
C26_Witness ==
    /\ host = "react" /\ currentScreen = "game" /\ ReactSessionOpen
    /\ attemptsUsed = 3 /\ Len(guessHistory) = 3
    /\ feedbackMessage.text.msg = "Please enter a valid number!"

====
